---- MODULE Spec2Model ----
(***************************************************************************)
(* Model of the authentic_execution runtime of a generated module          *)
(* (example/output/src/__authentic_execution.rs): the Connection Table     *)
(* behind its mutex, key establishment (set_key), inbound dispatch         *)
(* (handle_input), outbound dispatch (handle_output), the EM forwarder     *)
(* (send_to_em) and the entry router (handle_entrypoint).                  *)
(*                                                                         *)
(* Byte strings are sequences of bytes (0..255).  A request is a record    *)
(* [bytes, cipher]: the leading clear bytes followed by an optional AEAD   *)
(* ciphertext.  Ciphertexts are symbolic: [pt, key, ad, enc] is the        *)
(* encryption of pt under key with associated data ad by algorithm enc.    *)
(***************************************************************************)
EXTENDS Integers, Sequences, FiniteSets, TLC

VARIABLES CONNECTIONS, lock, pc, frame, req, last, handled, tasks, em, ncalls,
          seen

\* seen is a history variable: the <<connection id, ciphertext>> pairs that
\* handle_input decrypted since the last insert for that connection id
vars ==
    <<CONNECTIONS, lock, pc, frame, req, last, handled, tasks, em, ncalls, seen>>

----------------------------------------------------------------------------
(* Bounds of the model *)

\* total number of handle_entrypoint calls in a run
MaxCalls == 3

\* total number of calls in a run that draws from the few requests
MaxFewCalls == 4

\* the caller threads
Threads == {1, 2}

----------------------------------------------------------------------------
(* Widths and codecs *)

U16Modulus == 65536
ByteModulus == 256

\* u16::from_be_bytes([data[0], data[1]])
data_to_u16_le(data) == data[2] * ByteModulus + data[1]
data_to_u16(data) == data[1] * ByteModulus + data[2]

\* val.to_be_bytes()
u16_to_data(val) == <<val \div ByteModulus, val % ByteModulus>>

\* self.nonce += 1 on a u16: the two's-complement wrap of a release build
\* (a build with overflow checks panics at 65535 instead of wrapping)
increment_nonce_skip(nonce) == nonce
increment_nonce(nonce) == (nonce + 1) % U16Modulus

Connection_new(index, nonce, key, encryption) ==
    [index |-> index, nonce |-> nonce, key |-> key, encryption |-> encryption]

NoConn == Connection_new(0, 0, "none", "None")

----------------------------------------------------------------------------
(* The AEAD library (reactive_crypto) and base64, at their interface *)

NoCipher == [pt |-> "none", key |-> "none", ad |-> <<>>, enc |-> "none"]
\* bytes that are no output of encrypt
Junk == [pt |-> "junk", key |-> "none", ad |-> <<>>, enc |-> "none"]

\* Encryption::from_u8: the algorithm catalog
from_u8(enc) ==
    CASE enc = 0 -> "Aes"
      [] enc = 1 -> "Spongent"
      [] OTHER   -> "None"

\* keys the primitives accept (a key of the wrong size is refused)
KeyFits(key, enc) == key # "bad" /\ enc \in {"Aes", "Spongent"}

encrypt(data, key, ad, enc) ==
    IF KeyFits(key, enc)
    THEN [ok |-> TRUE, val |-> [pt |-> data, key |-> key, ad |-> ad, enc |-> enc]]
    ELSE [ok |-> FALSE, val |-> NoCipher]

IsCipher(c) == c # NoCipher /\ c # Junk

decrypt(cipher, key, ad, enc) ==
    IF IsCipher(cipher) /\ KeyFits(key, enc)
       /\ cipher.key = key /\ cipher.ad = ad /\ cipher.enc = enc
    THEN [ok |-> TRUE, val |-> cipher.pt]
    ELSE [ok |-> FALSE, val |-> "none"]

\* the module's master key, base64-encoded at rest
MODULE_KEY == [b64 |-> TRUE, key |-> "mk"]

base64_decode(s) == [ok |-> s.b64, val |-> s.key]

----------------------------------------------------------------------------
(* Requests: clear bytes followed by an optional ciphertext *)

Data(bytes, cipher) == [bytes |-> bytes, cipher |-> cipher]

\* length in bytes of a plaintext: "out" is the longest whose ciphertext the
\* forwarder takes, "big" the shortest whose ciphertext it drops
PlainLen(pt) ==
    CASE pt = "big" -> 65516
      [] pt = "out" -> 65515
      [] OTHER      -> 4

\* an AEAD ciphertext is its plaintext plus a 16-byte tag
CipherLen(c) == IF c = NoCipher THEN 0 ELSE PlainLen(c.pt) + 16

\* data.len()
DataLen(d) == Len(d.bytes) + CipherLen(d.cipher)

\* &data[from..]
SliceFrom(d, from) ==
    Data(SubSeq(d.bytes, from + 1, Len(d.bytes)), d.cipher)

\* a byte string read as a ciphertext: clear bytes in front of it spoil it
AsCipher(d) == IF d.bytes = <<>> THEN d.cipher ELSE Junk

\* &data[from..to], inside the clear bytes
Slice(d, from, to) == SubSeq(d.bytes, from + 1, to)

----------------------------------------------------------------------------
(* Dispatch tables *)

\* INPUTS: logical index -> application input handler
INPUTS == {2}

\* ENTRYPOINTS: entry id -> handler
ENTRYPOINTS ==
    (0 :> "set_key_wrapper") @@ (1 :> "handle_input_wrapper")
        @@ (2 :> "press_button")

----------------------------------------------------------------------------
(* Results of a call, up to the point where it first needs the table lock *)

\* failure(code, None) / success(None)
Return(code) ==
    [kind |-> "ret", code |-> code, conn_id |-> 0, conn |-> NoConn,
     payload |-> NoCipher]

ToAdd(conn_id, conn) ==
    [kind |-> "add", code |-> "Ok", conn_id |-> conn_id, conn |-> conn,
     payload |-> NoCipher]

ToInput(conn_id, payload) ==
    [kind |-> "input", code |-> "Ok", conn_id |-> conn_id, conn |-> NoConn,
     payload |-> payload]

ToApp == 
    [kind |-> "app", code |-> "Ok", conn_id |-> 0, conn |-> NoConn,
     payload |-> NoCipher]

\* the associated data of a key delivery: enc, conn_id, index, nonce
set_key_ad_fixedindex(enc, conn_id, index, nonce) ==
    <<enc>> \o conn_id \o <<0, 2>> \o nonce
set_key_ad(enc, conn_id, index, nonce) ==
    <<enc>> \o conn_id \o index \o nonce

\* the record a key delivery installs
set_key_conn_nonce(index, nonce, key, enc_type) ==
    Connection_new(data_to_u16(index), data_to_u16(nonce), key, enc_type)
set_key_conn(index, nonce, key, enc_type) ==
    Connection_new(data_to_u16(index), 0, key, enc_type)

set_key_unchecked(enc, conn_id, index, nonce, cipher) ==
    LET key == IF IsCipher(cipher) THEN cipher.pt ELSE "none"
    IN ToAdd(data_to_u16(conn_id), set_key_conn(index, nonce, key, from_u8(enc)))
set_key(enc, conn_id, index, nonce, cipher) ==
    LET ad == set_key_ad(enc, conn_id, index, nonce)
        decoded_key == base64_decode(MODULE_KEY)
        key == decrypt(cipher, decoded_key.val, ad, "Aes")
        enc_type == from_u8(enc)
    IN  IF ~decoded_key.ok THEN Return("InternalError")
        ELSE IF ~key.ok THEN Return("CryptoError")
        ELSE IF enc_type = "None" THEN Return("CryptoError")
        ELSE ToAdd(data_to_u16(conn_id),
                   set_key_conn(index, nonce, key.val, enc_type))

set_key_wrapper(data) ==
    IF DataLen(data) < 7 THEN Return("IllegalPayload")
    ELSE set_key(data.bytes[1], Slice(data, 1, 3), Slice(data, 3, 5),
                 Slice(data, 5, 7), AsCipher(SliceFrom(data, 7)))

handle_input_wrapper(data) ==
    IF DataLen(data) < 2 THEN Return("IllegalPayload")
    ELSE ToInput(data_to_u16(data.bytes), AsCipher(SliceFrom(data, 2)))

handle_entrypoint(data) ==
    IF DataLen(data) < 2 THEN Return("IllegalPayload")
    ELSE LET id == data_to_u16(data.bytes)
         IN  IF id \notin DOMAIN ENTRYPOINTS THEN Return("BadRequest")
             ELSE CASE ENTRYPOINTS[id] = "set_key_wrapper" ->
                           set_key_wrapper(SliceFrom(data, 2))
                    [] ENTRYPOINTS[id] = "handle_input_wrapper" ->
                           handle_input_wrapper(SliceFrom(data, 2))
                    [] OTHER -> ToApp

----------------------------------------------------------------------------
(* The critical sections, as functions of the table *)

\* the associated data of application traffic: the connection's nonce
input_ad_fixed(nonce) == u16_to_data(0)
input_ad(nonce) == u16_to_data(nonce)

InputResult(code, map, data, index) ==
    [code |-> code, map |-> map, data |-> data, index |-> index]

\* handle_input from get_mut to drop(map)
handle_input_section_decryptfirst(map, conn_id, payload) ==
    LET known == conn_id \in DOMAIN map
        conn == IF known THEN map[conn_id] ELSE NoConn
        data == decrypt(payload, conn.key, input_ad(conn.nonce), conn.encryption)
    IN  IF ~data.ok THEN InputResult("CryptoError", map, "none", 0)
        ELSE IF ~known THEN InputResult("BadRequest", map, "none", 0)
        ELSE InputResult("Ok",
                 [map EXCEPT ![conn_id].nonce = increment_nonce(conn.nonce)],
                 data.val, conn.index)
handle_input_section(map, conn_id, payload) ==
    IF conn_id \notin DOMAIN map
    THEN InputResult("BadRequest", map, "none", 0)
    ELSE LET conn == map[conn_id]
             nonce == conn.nonce
             data == decrypt(payload, conn.key, input_ad(nonce), conn.encryption)
         IN  IF ~data.ok
             THEN InputResult("CryptoError", map, "none", 0)
             ELSE InputResult("Ok",
                      [map EXCEPT ![conn_id].nonce = increment_nonce(nonce)],
                      data.val, conn.index)

\* the connections handle_output selects: filter(|(_, v)| v.get_index() == index)
output_filter_all(map, index) == DOMAIN map
output_filter(map, index) == {c \in DOMAIN map : map[c].index = index}

\* the orders in which a HashMap iterator may yield the members of S
Orders(S) ==
    {o \in [1..Cardinality(S) -> S] : \A i, j \in DOMAIN o : o[i] = o[j] => i = j}

Task(conn_id, data) == [conn_id |-> conn_id, data |-> data, st |-> "spawned"]

\* the body of handle_output's loop over the connections still to visit
RECURSIVE output_loop_advancefirst(_, _, _, _)
output_loop_advancefirst(map, order, data, spawned) ==
    IF order = <<>> THEN [map |-> map, spawned |-> spawned]
    ELSE LET conn_id == Head(order)
             conn == map[conn_id]
             nonce == conn.nonce
             payload == encrypt(data, conn.key, u16_to_data(nonce), conn.encryption)
             advanced == [map EXCEPT ![conn_id].nonce = increment_nonce(nonce)]
         IN  IF ~payload.ok
             THEN [map |-> advanced, spawned |-> spawned]
             ELSE output_loop_advancefirst(
                      advanced, Tail(order), data,
                      Append(spawned, Task(conn_id, payload.val)))
RECURSIVE output_loop(_, _, _, _)
output_loop(map, order, data, spawned) ==
    IF order = <<>> THEN [map |-> map, spawned |-> spawned]
    ELSE LET conn_id == Head(order)
             conn == map[conn_id]
             nonce == conn.nonce
             payload == encrypt(data, conn.key, u16_to_data(nonce), conn.encryption)
         IN  IF ~payload.ok
             THEN [map |-> map, spawned |-> spawned]
             ELSE output_loop(
                      [map EXCEPT ![conn_id].nonce = increment_nonce(nonce)],
                      Tail(order), data,
                      Append(spawned, Task(conn_id, payload.val)))

\* CONNECTIONS.lock().unwrap().insert(conn_id, conn)
insert_keep(map, conn_id, conn) == map @@ (conn_id :> conn)
insert(map, conn_id, conn) == (conn_id :> conn) @@ map

----------------------------------------------------------------------------
(* The requests and application behaviour a run draws from *)

\* key deliveries wrapped by the deployer: algorithm byte, connection id,
\* logical index, nonce field, session key
KeyTuples ==
    { <<0, <<0, 7>>, <<0, 2>>, <<0, 0>>, "k1">>,
      <<1, <<1, 2>>, <<0, 2>>, <<0, 5>>, "k2">>,
      <<0, <<0, 7>>, <<0, 3>>, <<0, 0>>, "k3">>,
      <<9, <<0, 7>>, <<0, 2>>, <<0, 0>>, "k1">>,
      <<0, <<1, 2>>, <<0, 2>>, <<0, 0>>, "bad">> }

\* the seven header bytes the deployer authenticates the wrapped key with
HeaderOf(k) == <<k[1]>> \o k[2] \o k[3] \o k[4]

Wrapped(k, masterkey) ==
    [pt |-> k[5], key |-> masterkey, ad |-> HeaderOf(k), enc |-> "Aes"]

\* wrapped keys on the wire: the deployer's, and one wrapped under a wrong key
KeyBlobs ==
    {Wrapped(k, "mk") : k \in KeyTuples}
        \cup {Wrapped(<<0, <<0, 7>>, <<0, 2>>, <<0, 0>>, "k1">>, "xk")}

AlgBytes == {0, 1, 9}
ConnIdBytes == {<<0, 7>>, <<1, 2>>, <<2, 1>>}
IndexBytes == {<<0, 2>>, <<0, 3>>}
NonceBytes == {<<0, 0>>, <<0, 5>>}

Header(h) == <<h[1]>> \o h[2] \o h[3] \o h[4]

\* number of the four header fields in which two headers differ
FieldDiff(g, h) ==
    Cardinality({i \in 1..4 : g[i] # h[i]})

\* every header that differs from a wrapped key's own in at most one field
HeadersNear(k) ==
    {h \in AlgBytes \X ConnIdBytes \X IndexBytes \X NonceBytes :
        FieldDiff(h, <<k[1], k[2], k[3], k[4]>>) <= 1}

\* the delivery an attacker captures and replays under changed headers
Captured == <<0, <<0, 7>>, <<0, 2>>, <<0, 0>>, "k1">>

KeyRequests ==
    {Data(<<0, 0>> \o Header(h), Wrapped(Captured, "mk")) :
        h \in HeadersNear(Captured)}
      \cup {Data(<<0, 0>> \o b.ad, b) : b \in KeyBlobs}

\* application ciphertexts a peer holding a session key can have made
PeerCipher(key, enc, nonce) == encrypt("open", key, u16_to_data(nonce), enc).val

\* connection id bytes and payload of the inbound requests
InputPairs ==
    { <<<<0, 7>>, PeerCipher("k1", "Aes", 0)>>,
      <<<<0, 7>>, PeerCipher("k1", "Aes", 1)>>,
      <<<<0, 7>>, PeerCipher("k3", "Aes", 0)>>,
      <<<<0, 7>>, Junk>>,
      <<<<1, 2>>, PeerCipher("k2", "Spongent", 0)>>,
      <<<<1, 2>>, PeerCipher("k1", "Aes", 0)>>,
      <<<<2, 1>>, PeerCipher("k1", "Aes", 0)>>,
      <<<<2, 1>>, Junk>> }

InputRequests == {Data(<<0, 1>> \o p[1], p[2]) : p \in InputPairs}

\* too short, unknown entry ids, and the application entry point
OtherRequests ==
    {Data(b, NoCipher) :
        b \in {<<0>>, <<0, 3>>, <<1, 0>>, <<0, 0, 0, 0, 7>>, <<0, 1, 0>>,
               <<0, 2>>}}

Requests == KeyRequests \cup InputRequests \cup OtherRequests

\* an inbound request for connection 7 made by its peer at nonce 0
FirstInput == Data(<<0, 1, 0, 7>>, PeerCipher("k1", "Aes", 0))

\* a third connection on logical index 2
ThirdKey == <<1, <<2, 1>>, <<0, 2>>, <<0, 0>>, "k2">>

\* a small set of well-formed requests for longer runs: key deliveries for
\* three connections of index 2 (one with a key its algorithm refuses) and
\* one of index 3, inbound traffic for them, and the application entry point
FewRequests ==
    {Data(<<0, 0>> \o HeaderOf(k), Wrapped(k, "mk")) :
        k \in {Captured, ThirdKey,
               <<0, <<1, 2>>, <<0, 2>>, <<0, 0>>, "bad">>,
               <<0, <<0, 7>>, <<0, 3>>, <<0, 0>>, "k3">>}}
      \cup {FirstInput,
            Data(<<0, 1, 0, 7>>, PeerCipher("k3", "Aes", 0)),
            Data(<<0, 2>>, NoCipher)}

\* what application code passes to handle_output
OutIndices == {2, 3}
OutData == {"out", "big"}

----------------------------------------------------------------------------
(* State *)

Free == 0

NoFrame ==
    [conn_id |-> 0, conn |-> NoConn, payload |-> NoCipher, index |-> 0,
     data |-> "none", caller |-> "none"]

NoData == Data(<<>>, NoCipher)

\* the return of handle_entrypoint made by the last step, if it made one:
\* the request and its result
Returned(d, code) == [req |-> d, code |-> code]
NoReturn == Returned(NoData, "None")

\* everything but the table
InitRest ==
    /\ lock = Free
    /\ pc = [t \in Threads |-> "idle"]
    /\ frame = [t \in Threads |-> NoFrame]
    /\ req = [t \in Threads |-> NoData]
    /\ last = NoReturn
    /\ handled = <<>>
    /\ tasks = <<>>
    /\ em = <<>>
    /\ ncalls = 0
    /\ seen = {}

\* lazy_static CONNECTIONS: Mutex::new(HashMap::new())
Init == CONNECTIONS = <<>> /\ InitRest

----------------------------------------------------------------------------
(* handle_entrypoint: the call, up to its first use of the table *)

\* the call of thread t on request d returns code
Returns(t, d, code) ==
    /\ pc' = [pc EXCEPT ![t] = "idle"]
    /\ frame' = [frame EXCEPT ![t] = NoFrame]
    /\ req' = [req EXCEPT ![t] = NoData]
    /\ last' = Returned(d, code)

\* the call of thread t on request d goes on
Goes(t, d, to, fr) ==
    /\ pc' = [pc EXCEPT ![t] = to]
    /\ frame' = [frame EXCEPT ![t] = fr]
    /\ req' = [req EXCEPT ![t] = d]
    /\ last' = NoReturn

Call(t, d, max) ==
    /\ pc[t] = "idle"
    /\ ncalls < max
    /\ ncalls' = ncalls + 1
    /\ LET o == handle_entrypoint(d)
       IN  CASE o.kind = "ret" -> Returns(t, d, o.code)
             [] o.kind = "add" ->
                    Goes(t, d, "sk_wait",
                         [NoFrame EXCEPT !.conn_id = o.conn_id, !.conn = o.conn])
             [] o.kind = "input" ->
                    Goes(t, d, "hi_wait",
                         [NoFrame EXCEPT !.conn_id = o.conn_id,
                                         !.payload = o.payload])
             [] OTHER -> Goes(t, d, "app", [NoFrame EXCEPT !.caller = "app"])
    /\ UNCHANGED <<CONNECTIONS, lock, handled, tasks, em, seen>>

CallEntry(t, d) == Call(t, d, MaxCalls)

\* the application entry point returns without producing an output
AppReturn(t) ==
    /\ pc[t] = "app"
    /\ Returns(t, req[t], "Ok")
    /\ UNCHANGED <<CONNECTIONS, lock, handled, tasks, em, ncalls, seen>>

\* the application entry point calls handle_output(index, data)
AppOutput(t, index, data) ==
    /\ pc[t] = "app"
    /\ Goes(t, req[t], "ho_wait", [frame[t] EXCEPT !.index = index, !.data = data])
    /\ UNCHANGED <<CONNECTIONS, lock, handled, tasks, em, ncalls, seen>>

----------------------------------------------------------------------------
(* set_key's add_connection *)

AddLock_unlocked(t) ==
    /\ pc[t] = "sk_wait"
    /\ pc' = [pc EXCEPT ![t] = "sk_insert"]
    /\ last' = NoReturn
    /\ UNCHANGED <<CONNECTIONS, lock, frame, req, handled, tasks, em, ncalls,
                   seen>>
AddLock(t) ==
    /\ pc[t] = "sk_wait"
    /\ lock = Free
    /\ lock' = t
    /\ pc' = [pc EXCEPT ![t] = "sk_insert"]
    /\ last' = NoReturn
    /\ UNCHANGED <<CONNECTIONS, frame, req, handled, tasks, em, ncalls, seen>>

AddInsert(t) ==
    /\ pc[t] = "sk_insert"
    /\ CONNECTIONS' = insert(CONNECTIONS, frame[t].conn_id, frame[t].conn)
    /\ seen' = {x \in seen : x[1] # frame[t].conn_id}
    /\ lock' = Free
    /\ Returns(t, req[t], "Ok")
    /\ UNCHANGED <<handled, tasks, em, ncalls>>

----------------------------------------------------------------------------
(* handle_input *)

InputLock(t) ==
    /\ pc[t] = "hi_wait"
    /\ lock = Free
    /\ lock' = t
    /\ pc' = [pc EXCEPT ![t] = "hi_section"]
    /\ last' = NoReturn
    /\ UNCHANGED <<CONNECTIONS, frame, req, handled, tasks, em, ncalls, seen>>

\* who holds the lock once handle_input goes on to its handler
InputLockKept(t) == t
InputLockAfter(t) == Free

\* the decrypt in one critical section, the nonce advance in a later one
InputSection_split(t) ==
    \/ /\ pc[t] = "hi_section"
       /\ LET r == handle_input_section(CONNECTIONS, frame[t].conn_id,
                                        frame[t].payload)
          IN  /\ seen' = IF r.code = "Ok"
                         THEN seen \cup {<<frame[t].conn_id, frame[t].payload>>}
                         ELSE seen
              /\ IF r.code = "Ok"
                 THEN Goes(t, req[t], "hi_advance",
                           [frame[t] EXCEPT !.index = r.index, !.data = r.data])
                 ELSE Returns(t, req[t], r.code)
       /\ lock' = Free
       /\ UNCHANGED <<CONNECTIONS, handled, tasks, em, ncalls>>
    \/ /\ pc[t] = "hi_advance"
       /\ lock = Free
       /\ CONNECTIONS' =
              [CONNECTIONS EXCEPT ![frame[t].conn_id].nonce = increment_nonce(@)]
       /\ Goes(t, req[t], "hi_call", frame[t])
       /\ UNCHANGED <<lock, handled, tasks, em, ncalls, seen>>
InputSection(t) ==
    /\ pc[t] = "hi_section"
    /\ LET r == handle_input_section(CONNECTIONS, frame[t].conn_id,
                                     frame[t].payload)
       IN  /\ CONNECTIONS' = r.map
           /\ seen' = IF r.code = "Ok"
                      THEN seen \cup {<<frame[t].conn_id, frame[t].payload>>}
                      ELSE seen
           /\ IF r.code = "Ok"
              THEN /\ lock' = InputLockAfter(t)
                   /\ Goes(t, req[t], "hi_call",
                           [frame[t] EXCEPT !.index = r.index, !.data = r.data])
              ELSE /\ lock' = Free
                   /\ Returns(t, req[t], r.code)
    /\ UNCHANGED <<handled, tasks, em, ncalls>>

\* INPUTS.get(index) finds no handler
InputNoHandler(t) ==
    /\ pc[t] = "hi_call"
    /\ frame[t].index \notin INPUTS
    /\ Returns(t, req[t], "BadRequest")
    /\ UNCHANGED <<CONNECTIONS, lock, handled, tasks, em, ncalls, seen>>

\* handler(&data)
InputHandler_inorder(t) ==
    /\ pc[t] = "hi_call"
    /\ frame[t].index \in INPUTS
    /\ \A u \in Threads \ {t} :
          (pc[u] = "hi_call" /\ frame[u].conn_id = frame[t].conn_id)
              => data_to_u16(frame[u].payload.ad) > data_to_u16(frame[t].payload.ad)
    /\ handled' = Append(handled, [index |-> frame[t].index,
                                   data |-> frame[t].data])
    /\ Goes(t, req[t], "handler", [frame[t] EXCEPT !.caller = "input"])
    /\ UNCHANGED <<CONNECTIONS, lock, tasks, em, ncalls, seen>>
InputHandler_twice(t) ==
    /\ pc[t] = "hi_call"
    /\ frame[t].index \in INPUTS
    /\ handled' = handled \o << [index |-> frame[t].index, data |-> frame[t].data],
                              [index |-> frame[t].index, data |-> frame[t].data] >>
    /\ Goes(t, req[t], "handler", [frame[t] EXCEPT !.caller = "input"])
    /\ UNCHANGED <<CONNECTIONS, lock, tasks, em, ncalls, seen>>
InputHandler(t) ==
    /\ pc[t] = "hi_call"
    /\ frame[t].index \in INPUTS
    /\ handled' = Append(handled, [index |-> frame[t].index,
                                   data |-> frame[t].data])
    /\ Goes(t, req[t], "handler", [frame[t] EXCEPT !.caller = "input"])
    /\ UNCHANGED <<CONNECTIONS, lock, tasks, em, ncalls, seen>>

\* the input handler returns; handle_input returns success(None)
HandlerReturn(t) ==
    /\ pc[t] = "handler"
    /\ Returns(t, req[t], "Ok")
    /\ UNCHANGED <<CONNECTIONS, lock, handled, tasks, em, ncalls, seen>>

\* the input handler calls handle_output(index, data)
HandlerOutput(t, index, data) ==
    /\ pc[t] = "handler"
    /\ Goes(t, req[t], "ho_wait", [frame[t] EXCEPT !.index = index, !.data = data])
    /\ UNCHANGED <<CONNECTIONS, lock, handled, tasks, em, ncalls, seen>>

----------------------------------------------------------------------------
(* handle_output *)

OutputLock(t) ==
    /\ pc[t] = "ho_wait"
    /\ lock = Free
    /\ lock' = t
    /\ pc' = [pc EXCEPT ![t] = "ho_loop"]
    /\ last' = NoReturn
    /\ UNCHANGED <<CONNECTIONS, frame, req, handled, tasks, em, ncalls, seen>>

\* the whole loop, under the lock; its caller then returns Ok
OutputLoop_inline(t, order) ==
    /\ pc[t] = "ho_loop"
    /\ LET r == output_loop(CONNECTIONS, order, frame[t].data, <<>>)
       IN  /\ CONNECTIONS' = r.map
           /\ tasks' = tasks \o r.spawned
           /\ IF r.spawned = <<>>
              THEN lock' = Free /\ Returns(t, req[t], "Ok")
              ELSE lock' = t /\ Goes(t, req[t], "ho_send", frame[t])
    /\ UNCHANGED <<handled, em, ncalls, seen>>
OutputLoop(t, order) ==
    /\ pc[t] = "ho_loop"
    /\ LET r == output_loop(CONNECTIONS, order, frame[t].data, <<>>)
       IN  /\ CONNECTIONS' = r.map
           /\ tasks' = tasks \o r.spawned
    /\ lock' = Free
    /\ Returns(t, req[t], "Ok")
    /\ UNCHANGED <<handled, em, ncalls, seen>>

----------------------------------------------------------------------------
(* send_to_em: one background task per spawned send *)

EmLimit_loose == U16Modulus - 4
EmLimit == 65531

TaskTo(i, st) == tasks' = [tasks EXCEPT ![i].st = st]

\* data_len > 65531: log and drop
TaskTooBig(i) ==
    /\ tasks[i].st = "spawned"
    /\ CipherLen(tasks[i].data) > EmLimit
    /\ TaskTo(i, "dropped")
    /\ last' = NoReturn
    /\ UNCHANGED <<CONNECTIONS, lock, pc, frame, req, handled, em, ncalls, seen>>

TaskConnect(i) ==
    /\ tasks[i].st = "spawned"
    /\ CipherLen(tasks[i].data) <= EmLimit
    /\ TaskTo(i, "connected")
    /\ last' = NoReturn
    /\ UNCHANGED <<CONNECTIONS, lock, pc, frame, req, handled, em, ncalls, seen>>

TaskConnectFail(i) ==
    /\ tasks[i].st = "spawned"
    /\ CipherLen(tasks[i].data) <= EmLimit
    /\ TaskTo(i, "dropped")
    /\ last' = NoReturn
    /\ UNCHANGED <<CONNECTIONS, lock, pc, frame, req, handled, em, ncalls, seen>>

\* write_command of [conn_id (2 bytes, big-endian)][ciphertext]
TaskWrite_inorder(i) ==
    /\ tasks[i].st = "connected"
    /\ \A j \in 1 .. (i - 1) : tasks[j].st \in {"written", "dropped"}
    /\ TaskTo(i, "written")
    /\ em' = Append(em, Data(u16_to_data(tasks[i].conn_id), tasks[i].data))
    /\ last' = NoReturn
    /\ UNCHANGED <<CONNECTIONS, lock, pc, frame, req, handled, ncalls, seen>>
TaskWrite(i) ==
    /\ tasks[i].st = "connected"
    /\ TaskTo(i, "written")
    /\ em' = Append(em, Data(u16_to_data(tasks[i].conn_id), tasks[i].data))
    /\ last' = NoReturn
    /\ UNCHANGED <<CONNECTIONS, lock, pc, frame, req, handled, ncalls, seen>>

TaskWriteFail_rollback(i) ==
    /\ tasks[i].st = "connected"
    /\ TaskTo(i, "dropped")
    /\ CONNECTIONS' =
           [CONNECTIONS EXCEPT ![tasks[i].conn_id].nonce =
                                   data_to_u16(tasks[i].data.ad)]
    /\ last' = NoReturn
    /\ UNCHANGED <<lock, pc, frame, req, handled, em, ncalls, seen>>
TaskWriteFail(i) ==
    /\ tasks[i].st = "connected"
    /\ TaskTo(i, "dropped")
    /\ last' = NoReturn
    /\ UNCHANGED <<CONNECTIONS, lock, pc, frame, req, handled, em, ncalls, seen>>

----------------------------------------------------------------------------

Next ==
    \/ \E t \in Threads, d \in Requests : CallEntry(t, d)
    \/ \E t \in Threads : AppReturn(t)
    \/ \E t \in Threads, i \in OutIndices, d \in OutData : AppOutput(t, i, d)
    \/ \E t \in Threads : AddLock(t)
    \/ \E t \in Threads : AddInsert(t)
    \/ \E t \in Threads : InputLock(t)
    \/ \E t \in Threads : InputSection(t)
    \/ \E t \in Threads : InputNoHandler(t)
    \/ \E t \in Threads : InputHandler(t)
    \/ \E t \in Threads : HandlerReturn(t)
    \/ \E t \in Threads, i \in OutIndices, d \in OutData : HandlerOutput(t, i, d)
    \/ \E t \in Threads : OutputLock(t)
    \/ \E t \in Threads :
          \E o \in Orders(output_filter(CONNECTIONS, frame[t].index)) :
              OutputLoop(t, o)
    \/ \E i \in DOMAIN tasks : TaskTooBig(i)
    \/ \E i \in DOMAIN tasks : TaskConnect(i)
    \/ \E i \in DOMAIN tasks : TaskConnectFail(i)
    \/ \E i \in DOMAIN tasks : TaskWrite(i)
    \/ \E i \in DOMAIN tasks : TaskWriteFail(i)

Spec == Init /\ [][Next]_vars

\* longer runs over the few requests
NextFew ==
    \/ \E t \in Threads, d \in FewRequests : Call(t, d, MaxFewCalls)
    \/ \E t \in Threads : AppReturn(t)
    \/ \E t \in Threads, i \in OutIndices, d \in OutData : AppOutput(t, i, d)
    \/ \E t \in Threads : AddLock(t)
    \/ \E t \in Threads : AddInsert(t)
    \/ \E t \in Threads : InputLock(t)
    \/ \E t \in Threads : InputSection(t)
    \/ \E t \in Threads : InputNoHandler(t)
    \/ \E t \in Threads : InputHandler(t)
    \/ \E t \in Threads : HandlerReturn(t)
    \/ \E t \in Threads, i \in OutIndices, d \in OutData : HandlerOutput(t, i, d)
    \/ \E t \in Threads : OutputLock(t)
    \/ \E t \in Threads :
          \E o \in Orders(output_filter(CONNECTIONS, frame[t].index)) :
              OutputLoop(t, o)
    \/ \E i \in DOMAIN tasks : TaskTooBig(i)
    \/ \E i \in DOMAIN tasks : TaskConnect(i)
    \/ \E i \in DOMAIN tasks : TaskConnectFail(i)
    \/ \E i \in DOMAIN tasks : TaskWrite(i)
    \/ \E i \in DOMAIN tasks : TaskWriteFail(i)

SpecFew == Init /\ [][NextFew]_vars

\* the table after 65535 successful operations on connection 7
InitWrap ==
    /\ CONNECTIONS = (7 :> Connection_new(2, U16Modulus - 1, "k1", "Aes"))
    /\ InitRest

SpecWrap == InitWrap /\ [][Next]_vars

\* every thread that can take a step eventually takes one
ThreadStep(t) ==
    \/ AppReturn(t)
    \/ \E i \in OutIndices, d \in OutData : AppOutput(t, i, d)
    \/ AddLock(t) \/ AddInsert(t)
    \/ InputLock(t) \/ InputSection(t) \/ InputNoHandler(t) \/ InputHandler(t)
    \/ HandlerReturn(t)
    \/ \E i \in OutIndices, d \in OutData : HandlerOutput(t, i, d)
    \/ OutputLock(t)
    \/ \E o \in Orders(output_filter(CONNECTIONS, frame[t].index)) :
          OutputLoop(t, o)

FairSpec == Spec /\ \A t \in Threads : WF_vars(ThreadStep(t))

----------------------------------------------------------------------------
(* Vocabulary of the properties *)

\* big-endian value of the two bytes of b at i and i + 1
BE(b, i) == b[i] * 256 + b[i + 1]

\* this step is a call of handle_entrypoint
IsCall == ncalls' = ncalls + 1

\* the call of this step goes on to the table instead of returning at once
CallGoesOn == req' # req

\* the request of the call of this step
CalledRequest ==
    IF CallGoesOn
    THEN req'[CHOOSE t \in Threads : req'[t] # req[t]]
    ELSE last'.req

\* a request routed to key establishment with a full seven-byte header
IsKeyDelivery(d) == Len(d.bytes) = 9 /\ d.bytes[1] = 0 /\ d.bytes[2] = 0

\* the ciphertext of d is a key wrapped under the master key for d's header
Authentic(d) ==
    /\ d.cipher.key = "mk" /\ d.cipher.enc = "Aes"
    /\ d.cipher.ad = SubSeq(d.bytes, 3, 9)

KnownAlgorithm(d) == d.bytes[3] \in {0, 1}

\* thread t takes a step out of the program point p
Leaves(t, p) == pc[t] = p /\ pc'[t] # p

\* the records of every connection id but c are what they were
OthersUnchanged(c) ==
    /\ DOMAIN CONNECTIONS' \ {c} = DOMAIN CONNECTIONS \ {c}
    /\ \A o \in DOMAIN CONNECTIONS \ {c} : CONNECTIONS'[o] = CONNECTIONS[o]

----------------------------------------------------------------------------
(* C1: the nonce stored for a connection id starts at 0, changes only by    *)
(* +1 steps and never takes a value it has already held.                   *)
C1_NonceStrictlyIncreasing ==
    [][\A c \in DOMAIN CONNECTIONS' :
          IF c \in DOMAIN CONNECTIONS
          THEN \/ CONNECTIONS'[c].nonce = CONNECTIONS[c].nonce
               \/ CONNECTIONS'[c].nonce = CONNECTIONS[c].nonce + 1
          ELSE CONNECTIONS'[c].nonce = 0]_vars

(* C1, the wrap alone: without a key establishment the nonce of a          *)
(* connection never goes back to a smaller value.                          *)
C1_NoWrap ==
    [][\A c \in DOMAIN CONNECTIONS :
          (\A t \in Threads : pc[t] # "sk_insert")
              => CONNECTIONS'[c].nonce >= CONNECTIONS[c].nonce]_vars

(* C2: after a key establishment the nonce is 0; a successful inbound      *)
(* dispatch at nonce 0 sets it to 1; the same ciphertext submitted again   *)
(* returns CryptoError, leaves the nonce at 1 and invokes no handler.      *)
C2_ReplayRejected ==
    [][\A t \in Threads :
          LET c == frame[t].conn_id
              p == frame[t].payload
          IN  /\ Leaves(t, "sk_insert") => CONNECTIONS'[c].nonce = 0
              /\ (Leaves(t, "hi_section") /\ c \in DOMAIN CONNECTIONS
                     /\ p.ad = <<0, 0>>)
                  => IF CONNECTIONS[c].nonce = 0
                     THEN pc'[t] = "hi_call" => CONNECTIONS'[c].nonce = 1
                     ELSE /\ pc'[t] = "idle"
                          /\ last' = Returned(req[t], "CryptoError")
                          /\ CONNECTIONS' = CONNECTIONS
                          /\ handled' = handled]_vars

C2_Witness ==
    /\ last = Returned(FirstInput, "CryptoError")
    /\ 7 \in DOMAIN CONNECTIONS
    /\ CONNECTIONS[7].nonce = 1 /\ CONNECTIONS[7].key = "k1"
    /\ handled = <<[index |-> 2, data |-> "open"]>>

(* C3: a key establishment whose wrapped key fails authentication under    *)
(* the received header, or whose algorithm byte is unrecognized, returns   *)
(* CryptoError and leaves the Connection Table as it was.                  *)
C3_RejectedKeyChangesNothing ==
    [][IsCall =>
          LET d == CalledRequest
          IN  (IsKeyDelivery(d) /\ (~Authentic(d) \/ ~KnownAlgorithm(d)))
                  => /\ ~CallGoesOn
                     /\ last'.code = "CryptoError"
                     /\ CONNECTIONS' = CONNECTIONS]_vars

C3_Witness ==
    /\ IsKeyDelivery(last.req)
    /\ ~Authentic(last.req)
    /\ last.code = "CryptoError"
    /\ DOMAIN CONNECTIONS = {7}
    /\ \A t \in Threads : pc[t] = "idle"

(* C4: a key delivery wrapped for (algorithm, connection id, index, nonce) *)
(* is accepted only under exactly that header; with any header field       *)
(* changed it returns CryptoError and installs nothing, so every record    *)
(* sits under the connection id and index its key was wrapped for.         *)
C4_HeaderBinding ==
    /\ [][IsCall =>
            LET d == CalledRequest
            IN  \A k \in KeyTuples :
                  (IsKeyDelivery(d) /\ d.cipher = Wrapped(k, "mk")
                     /\ SubSeq(d.bytes, 3, 9) # HeaderOf(k))
                      => /\ ~CallGoesOn
                         /\ last'.code = "CryptoError"
                         /\ CONNECTIONS' = CONNECTIONS]_vars
    /\ [](\A c \in DOMAIN CONNECTIONS :
            \E k \in KeyTuples :
                /\ c = BE(k[2], 1)
                /\ CONNECTIONS[c].index = BE(k[3], 1)
                /\ CONNECTIONS[c].key = k[5])

C4_Witness ==
    /\ last.req = Data(<<0, 0, 0, 0, 7, 0, 3, 0, 0>>, Wrapped(Captured, "mk"))
    /\ last.code = "CryptoError"
    /\ 7 \in DOMAIN CONNECTIONS /\ CONNECTIONS[7].index = 2

(* C5: a successful key establishment for connection id C leaves C's entry *)
(* equal to {index from the payload, nonce 0, key = the unwrapped          *)
(* plaintext, algorithm from the payload} and every other entry unchanged. *)
C5_InstalledRecord ==
    [][\A t \in Threads :
          Leaves(t, "sk_insert") =>
              LET d == req[t]
                  c == BE(d.bytes, 4)
              IN  /\ last' = Returned(d, "Ok")
                  /\ c \in DOMAIN CONNECTIONS'
                  /\ CONNECTIONS'[c] =
                         [index |-> BE(d.bytes, 6), nonce |-> 0,
                          key |-> d.cipher.pt,
                          encryption |-> IF d.bytes[3] = 0 THEN "Aes"
                                                          ELSE "Spongent"]
                  /\ OthersUnchanged(c)]_vars

C5_Witness ==
    /\ last = Returned(Data(<<0, 0, 1, 1, 2, 0, 2, 0, 5>>,
                            Wrapped(<<1, <<1, 2>>, <<0, 2>>, <<0, 5>>, "k2">>, "mk")),
                       "Ok")
    /\ DOMAIN CONNECTIONS = {7, 258}
    /\ CONNECTIONS[258] = [index |-> 2, nonce |-> 0, key |-> "k2",
                           encryption |-> "Spongent"]
    /\ CONNECTIONS[7].nonce = 1

\* thread t is between drop(map) and the return of its input handler
InHandler(t) ==
    \/ pc[t] \in {"hi_call", "handler"}
    \/ pc[t] = "ho_wait" /\ frame[t].caller = "input"

(* C6: while an inbound dispatch runs the application input handler it    *)
(* does not hold the table lock, so a handler that calls outbound dispatch *)
(* gets the lock and the inbound dispatch returns, in every interleaving.  *)
C6_HandlerRunsUnlocked ==
    /\ [](\A t \in Threads : InHandler(t) => lock # t)
    /\ \A t \in Threads : InHandler(t) ~> (pc[t] = "idle")

C6_Witness ==
    \E t \in Threads :
        /\ pc[t] = "ho_loop" /\ lock = t
        /\ frame[t].caller = "input"
        /\ frame[t].conn_id \in output_filter(CONNECTIONS, frame[t].index)
        /\ \E u \in Threads : u # t /\ pc[u] \in {"hi_wait", "ho_wait", "sk_wait"}

(* C7: an outbound dispatch for index I in which every encryption succeeds *)
(* advances the nonce of every record of index I by exactly 1, spawns one  *)
(* send per such record, tagged with its connection id and encrypted under *)
(* its nonce before the advance, and leaves every other record unchanged.  *)
C7_FanOut ==
    [][\A t \in Threads :
          Leaves(t, "ho_loop") =>
              LET M == {c \in DOMAIN CONNECTIONS :
                           CONNECTIONS[c].index = frame[t].index}
                  new == SubSeq(tasks', Len(tasks) + 1, Len(tasks'))
                  Sent(c) ==
                      [conn_id |-> c,
                       data |-> [pt |-> frame[t].data,
                                 key |-> CONNECTIONS[c].key,
                                 ad |-> <<CONNECTIONS[c].nonce \div 256,
                                          CONNECTIONS[c].nonce % 256>>,
                                 enc |-> CONNECTIONS[c].encryption],
                       st |-> "spawned"]
              IN  (\A c \in M :
                      KeyFits(CONNECTIONS[c].key, CONNECTIONS[c].encryption))
                  => /\ DOMAIN CONNECTIONS' = DOMAIN CONNECTIONS
                     /\ \A c \in M :
                           CONNECTIONS'[c] =
                               [CONNECTIONS[c] EXCEPT
                                   !.nonce = (@ + 1) % 65536]
                     /\ \A c \in DOMAIN CONNECTIONS \ M :
                           CONNECTIONS'[c] = CONNECTIONS[c]
                     /\ SubSeq(tasks', 1, Len(tasks)) = tasks
                     /\ Len(new) = Cardinality(M)
                     /\ \A c \in M : \E i \in DOMAIN new : new[i] = Sent(c)]_vars

C7_Witness ==
    /\ Len(tasks) = 2
    /\ {tasks[1].conn_id, tasks[2].conn_id} = {7, 258}
    /\ tasks[1].data.ad = <<0, 0>> /\ tasks[2].data.ad = <<0, 0>>
    /\ CONNECTIONS[7].nonce = 1 /\ CONNECTIONS[258].nonce = 1
    /\ \A t \in Threads : pc[t] = "idle"

(* C8: an inbound dispatch whose decrypt succeeds but whose record's index *)
(* has no input handler returns BadRequest with the nonce already advanced *)
(* by 1 and with no handler invoked.                                       *)
C8_NoHandlerAfterAdvance ==
    [][\A t \in Threads :
          LET c == frame[t].conn_id
              p == frame[t].payload
          IN  /\ (/\ Leaves(t, "hi_section")
                  /\ c \in DOMAIN CONNECTIONS
                  /\ CONNECTIONS[c].index \notin INPUTS
                  /\ p.key = CONNECTIONS[c].key
                  /\ p.enc = CONNECTIONS[c].encryption
                  /\ p.ad = <<CONNECTIONS[c].nonce \div 256,
                              CONNECTIONS[c].nonce % 256>>)
                  => /\ pc'[t] = "hi_call"
                     /\ CONNECTIONS'[c].nonce =
                            (CONNECTIONS[c].nonce + 1) % 65536
                     /\ frame'[t].index = CONNECTIONS[c].index
              /\ (Leaves(t, "hi_call") /\ frame[t].index \notin INPUTS)
                  => /\ pc'[t] = "idle"
                     /\ last' = Returned(req[t], "BadRequest")
                     /\ handled' = handled
                     /\ CONNECTIONS' = CONNECTIONS]_vars

C8_Witness ==
    /\ last = Returned(Data(<<0, 1, 0, 7>>, PeerCipher("k3", "Aes", 0)),
                       "BadRequest")
    /\ 7 \in DOMAIN CONNECTIONS
    /\ CONNECTIONS[7] = [index |-> 3, nonce |-> 1, key |-> "k3",
                         encryption |-> "Aes"]
    /\ handled = <<>>

(* C9: an inbound dispatch naming a connection id that is not in the table *)
(* returns BadRequest, changes no record, invokes no handler and releases  *)
(* the lock, whether or not its payload would decrypt.                     *)
C9_UnknownConnection ==
    [][\A t \in Threads :
          /\ (Leaves(t, "hi_wait")) => frame'[t].conn_id = BE(req[t].bytes, 3)
          /\ (Leaves(t, "hi_section")
                 /\ frame[t].conn_id \notin DOMAIN CONNECTIONS)
              => /\ pc'[t] = "idle"
                 /\ last' = Returned(req[t], "BadRequest")
                 /\ CONNECTIONS' = CONNECTIONS
                 /\ handled' = handled
                 /\ lock = t /\ lock' = Free]_vars

C9_Witness ==
    /\ last = Returned(Data(<<0, 1, 2, 1>>, Junk), "BadRequest")
    /\ lock = Free
    /\ DOMAIN CONNECTIONS = {7, 258}
    /\ handled = <<>>

\* the call of this step does what outcome o of a handler says
RoutedAs(o) ==
    IF o.kind = "ret"
    THEN ~CallGoesOn /\ last'.code = o.code /\ CONNECTIONS' = CONNECTIONS
    ELSE /\ CallGoesOn
         /\ \E t \in Threads :
               /\ pc[t] = "idle"
               /\ pc'[t] = (IF o.kind = "add" THEN "sk_wait" ELSE "hi_wait")
               /\ frame'[t].conn_id = o.conn_id
               /\ frame'[t].conn = o.conn
               /\ frame'[t].payload = o.payload

(* C10: the router returns IllegalPayload for an input shorter than 2      *)
(* bytes and BadRequest for an entry id with no handler, the table         *)
(* unchanged; otherwise it runs the handler registered for the entry id    *)
(* (0 key establishment, 1 inbound dispatch) on the bytes after the first  *)
(* two and returns its result.                                             *)
C10_Router ==
    [][IsCall =>
          LET d == CalledRequest
              rest == Data(SubSeq(d.bytes, 3, Len(d.bytes)), d.cipher)
          IN  IF d.cipher = NoCipher /\ Len(d.bytes) < 2
              THEN RoutedAs(Return("IllegalPayload"))
              ELSE CASE BE(d.bytes, 1) = 0 -> RoutedAs(set_key_wrapper(rest))
                     [] BE(d.bytes, 1) = 1 -> RoutedAs(handle_input_wrapper(rest))
                     [] BE(d.bytes, 1) = 2 ->
                            \E t \in Threads : pc[t] = "idle" /\ pc'[t] = "app"
                     [] OTHER -> RoutedAs(Return("BadRequest"))]_vars

C10_Witness ==
    /\ last = Returned(Data(<<1, 0>>, NoCipher), "BadRequest")
    /\ DOMAIN CONNECTIONS = {7}
    /\ \E t \in Threads : pc[t] = "hi_wait"

\* thread t runs the application input handler, or what that handler called
UnderHandler(t) ==
    /\ pc[t] \in {"handler", "ho_wait", "ho_loop"}
    /\ frame[t].caller = "input"

\* the payload of thread t's inbound dispatch is a ciphertext made under the
\* key and algorithm of connection c for c's current nonce
MatchesNonce(t, c) ==
    /\ frame[t].payload.key = CONNECTIONS[c].key
    /\ frame[t].payload.enc = CONNECTIONS[c].encryption
    /\ frame[t].payload.ad = <<CONNECTIONS[c].nonce \div 256,
                               CONNECTIONS[c].nonce % 256>>
    /\ CONNECTIONS[c].key # "bad"

(* C11: an inbound dispatch for an established connection C of index I     *)
(* with a registered handler, carrying the encryption of P under C's key   *)
(* and algorithm for C's current nonce, invokes the handler of I exactly   *)
(* once with P, and the call returns Ok whatever the handler then does.    *)
C11_HandlerInvokedOnce ==
    [][\A t \in Threads :
          LET c == frame[t].conn_id
          IN  /\ (/\ Leaves(t, "hi_section")
                  /\ c \in DOMAIN CONNECTIONS
                  /\ CONNECTIONS[c].index \in INPUTS
                  /\ MatchesNonce(t, c))
                  => /\ pc'[t] = "hi_call"
                     /\ frame'[t].index = CONNECTIONS[c].index
                     /\ frame'[t].data = frame[t].payload.pt
                     /\ handled' = handled
              /\ (Leaves(t, "hi_call") /\ frame[t].index \in INPUTS)
                  => /\ pc'[t] = "handler"
                     /\ handled' = Append(handled, [index |-> frame[t].index,
                                                    data |-> frame[t].data])
              /\ (UnderHandler(t) /\ pc'[t] # pc[t])
                  => /\ handled' = handled
                     /\ pc'[t] = "idle" => last' = Returned(req[t], "Ok")
                     /\ pc'[t] # "idle" => UnderHandler(t)']_vars

C11_Witness ==
    /\ last = Returned(FirstInput, "Ok")
    /\ handled = <<[index |-> 2, data |-> "open"]>>
    /\ DOMAIN CONNECTIONS = {7}
    /\ CONNECTIONS[7] = [index |-> 2, nonce |-> 1, key |-> "k1",
                         encryption |-> "Aes"]
    /\ tasks = <<>>

\* thread t is at a program point that reads or writes the Connection Table:
\* the insert of add_connection, handle_input from get_mut to drop(map),
\* the loop of handle_output
TouchesTable(t) == pc[t] \in {"sk_insert", "hi_section", "ho_loop"}

(* C12: an operation is at a point that reads or writes the Connection     *)
(* Table exactly while it holds the table lock, at most one operation      *)
(* holds the lock at a time, and the table changes only in a step of the   *)
(* lock's holder, in every interleaving of the callers.                    *)
C12_TableUnderLock ==
    /\ [](\A t \in Threads : TouchesTable(t) <=> lock = t)
    /\ [](Cardinality({t \in Threads : TouchesTable(t)}) <= 1)
    /\ [][CONNECTIONS' # CONNECTIONS =>
             \E t \in Threads :
                 lock = t /\ TouchesTable(t) /\ pc'[t] # pc[t] /\ lock' = Free]_vars
    /\ [][\A t \in Threads :
             (~TouchesTable(t) /\ TouchesTable(t)') => lock = Free /\ lock' = t]_vars

C12_Witness ==
    \E t, u \in Threads :
        /\ pc[t] = "hi_section" /\ lock = t
        /\ frame[t].conn_id \in DOMAIN CONNECTIONS
        /\ pc[u] = "ho_wait"
        /\ frame[u].index = CONNECTIONS[frame[t].conn_id].index

\* the send task i has neither finished nor given up
Stalled(i) == tasks[i].st \in {"spawned", "connected"}

\* this step is a step of a send task
IsTaskStep == \E i \in DOMAIN tasks : tasks'[i] # tasks[i]

(* C13: a send task never holds the table lock, whether it finishes or     *)
(* hangs in its connect or its write, so under fair scheduling of the      *)
(* callers every key establishment, inbound dispatch and outbound dispatch *)
(* call returns, however many send tasks never finish.                     *)
C13_StalledSendsBlockNobody ==
    /\ [][IsTaskStep => lock' = lock /\ pc' = pc]_vars
    /\ [](lock # Free => \E t \in Threads : lock = t /\ TouchesTable(t))
    /\ [][\A t \in Threads :
             Leaves(t, "ho_loop") => lock' = Free /\ pc'[t] = "idle"]_vars
    /\ \A t \in Threads : (pc[t] # "idle") ~> (pc[t] = "idle")

C13_Witness ==
    /\ tasks # <<>>
    /\ \A i \in DOMAIN tasks : Stalled(i)
    /\ tasks[1].st = "connected"
    /\ \E t, u \in Threads :
          /\ pc[t] = "hi_section" /\ lock = t
          /\ frame[t].conn_id = tasks[1].conn_id
          /\ pc[u] = "idle"

\* the send that handle_output spawns for connection c and plaintext data
SentFor(c, data) ==
    [conn_id |-> c,
     data |-> [pt |-> data, key |-> CONNECTIONS[c].key,
               ad |-> <<CONNECTIONS[c].nonce \div 256,
                        CONNECTIONS[c].nonce % 256>>,
               enc |-> CONNECTIONS[c].encryption],
     st |-> "spawned"]

\* encryption under the record of connection c fails
EncryptFails(c) == ~KeyFits(CONNECTIONS[c].key, CONNECTIONS[c].encryption)

(* C14: an outbound dispatch in which encryption fails for a matching      *)
(* connection stops there: the connections visited before the failure      *)
(* have their nonce advanced and their send spawned, the failing one and   *)
(* all not yet visited keep their nonce and get no send, and the table     *)
(* lock is released.                                                       *)
C14_AbortOnEncryptFailure ==
    [][\A t \in Threads :
          Leaves(t, "ho_loop") =>
              LET M == {c \in DOMAIN CONNECTIONS :
                           CONNECTIONS[c].index = frame[t].index}
                  new == SubSeq(tasks', Len(tasks) + 1, Len(tasks'))
              IN  (\E c \in M : EncryptFails(c))
                  => /\ lock = t /\ lock' = Free
                     /\ pc'[t] = "idle"
                     /\ DOMAIN CONNECTIONS' = DOMAIN CONNECTIONS
                     /\ \A c \in DOMAIN CONNECTIONS \ M :
                           CONNECTIONS'[c] = CONNECTIONS[c]
                     /\ SubSeq(tasks', 1, Len(tasks)) = tasks
                     /\ \E o \in Orders(M) :
                          \E k \in 0 .. (Cardinality(M) - 1) :
                            /\ \A i \in 1 .. k : ~EncryptFails(o[i])
                            /\ EncryptFails(o[k + 1])
                            /\ Len(new) = k
                            /\ \A i \in 1 .. k :
                                 /\ new[i] = SentFor(o[i], frame[t].data)
                                 /\ CONNECTIONS'[o[i]] =
                                        [CONNECTIONS[o[i]] EXCEPT
                                            !.nonce = (@ + 1) % 65536]
                            /\ \A i \in (k + 1) .. Cardinality(M) :
                                 CONNECTIONS'[o[i]] = CONNECTIONS[o[i]]]_vars

C14_Witness ==
    /\ DOMAIN CONNECTIONS = {7, 258, 513}
    /\ CONNECTIONS[7] = [index |-> 2, nonce |-> 1, key |-> "k1",
                         encryption |-> "Aes"]
    /\ CONNECTIONS[258] = [index |-> 2, nonce |-> 0, key |-> "bad",
                           encryption |-> "Aes"]
    /\ CONNECTIONS[513] = [index |-> 2, nonce |-> 0, key |-> "k2",
                           encryption |-> "Spongent"]
    /\ Len(tasks) = 1 /\ tasks[1].conn_id = 7 /\ tasks[1].st = "spawned"
    /\ lock = Free
    /\ last.code = "Ok"
    /\ handled = <<>>

\* the frame written for send task i: connection id, big-endian, then the
\* ciphertext
FrameOf(i) ==
    [bytes |-> <<tasks[i].conn_id \div 256, tasks[i].conn_id % 256>>,
     cipher |-> tasks[i].data]

\* length of the ciphertext of send task i: plaintext plus 16-byte tag
TaskLen(i) ==
    16 + (CASE tasks[i].data.pt = "big" -> 65516
            [] tasks[i].data.pt = "out" -> 65515
            [] OTHER -> 4)

(* C15: a send whose ciphertext is longer than 65531 bytes never connects  *)
(* or writes; any other send writes at most one frame, which is the        *)
(* big-endian connection id followed by the ciphertext; a send that was    *)
(* dropped or has written does nothing more, so no write is retried.       *)
C15_Forwarder ==
    /\ [](\A i \in DOMAIN tasks :
             TaskLen(i) > 65531 => tasks[i].st \in {"spawned", "dropped"})
    /\ [](Len(em) = Cardinality({i \in DOMAIN tasks : tasks[i].st = "written"}))
    /\ [][em' # em =>
             \E i \in DOMAIN tasks :
                 /\ tasks[i].st = "connected" /\ tasks'[i].st = "written"
                 /\ TaskLen(i) <= 65531
                 /\ em' = Append(em, FrameOf(i))
                 /\ \A j \in DOMAIN tasks \ {i} : tasks'[j] = tasks[j]]_vars
    /\ [][\A i \in DOMAIN tasks :
             /\ tasks'[i].conn_id = tasks[i].conn_id
             /\ tasks'[i].data = tasks[i].data
             /\ tasks[i].st \in {"written", "dropped"} => tasks'[i] = tasks[i]
             /\ tasks[i].st = "connected"
                   => tasks'[i].st \in {"connected", "written", "dropped"}
             /\ (tasks[i].st = "spawned" /\ tasks'[i].st = "written") => FALSE]_vars

C15_Witness ==
    /\ Len(tasks) = 2
    /\ tasks[1].data.pt = "big" /\ tasks[1].st = "dropped"
    /\ tasks[2].data.pt = "out" /\ tasks[2].st = "written"
    /\ em = << [bytes |-> <<0, 7>>,
                cipher |-> [pt |-> "out", key |-> "k1", ad |-> <<0, 1>>,
                            enc |-> "Aes"]] >>

(* C16: a key delivery that authenticates is accepted whatever the table   *)
(* holds, so a byte-identical re-delivery for connection C is accepted     *)
(* again and puts C's record back to nonce 0 under the same session key;   *)
(* an inbound ciphertext made for nonce 0 is then accepted again and its   *)
(* handler is invoked once more.                                           *)
C16_RedeliveryResetsNonce ==
    /\ [][IsCall =>
             LET d == CalledRequest
             IN  (IsKeyDelivery(d) /\ Authentic(d) /\ KnownAlgorithm(d))
                     => /\ CallGoesOn
                        /\ \E t \in Threads :
                              /\ pc[t] = "idle" /\ pc'[t] = "sk_wait"
                              /\ frame'[t].conn_id = BE(d.bytes, 4)
                              /\ frame'[t].conn.key = d.cipher.pt]_vars
    /\ [][\A t \in Threads :
             LET c == frame[t].conn_id
             IN  (Leaves(t, "sk_insert") /\ c \in DOMAIN CONNECTIONS
                     /\ [CONNECTIONS[c] EXCEPT !.nonce = 0] = frame[t].conn)
                     => /\ last' = Returned(req[t], "Ok")
                        /\ CONNECTIONS'[c] = [CONNECTIONS[c] EXCEPT !.nonce = 0]]_vars
    /\ [][\A t \in Threads :
             LET c == frame[t].conn_id
             IN  /\ (/\ Leaves(t, "hi_section")
                     /\ c \in DOMAIN CONNECTIONS
                     /\ CONNECTIONS[c].nonce = 0
                     /\ frame[t].payload.ad = <<0, 0>>
                     /\ MatchesNonce(t, c))
                     => /\ pc'[t] = "hi_call"
                        /\ CONNECTIONS'[c].nonce = 1
                        /\ frame'[t].data = frame[t].payload.pt
                 /\ (Leaves(t, "hi_call") /\ frame[t].index \in INPUTS)
                     => Len(handled') = Len(handled) + 1]_vars

C16_Witness ==
    /\ ncalls = 4
    /\ handled = <<[index |-> 2, data |-> "open"], [index |-> 2, data |-> "open"]>>
    /\ DOMAIN CONNECTIONS = {7}
    /\ CONNECTIONS[7] = [index |-> 2, nonce |-> 1, key |-> "k1",
                         encryption |-> "Aes"]
    /\ tasks = <<>>
    /\ last = Returned(FirstInput, "Ok")

(* C17: once an inbound dispatch has decrypted a ciphertext for a          *)
(* connection, every other inbound dispatch carrying the same ciphertext   *)
(* for that connection, concurrent or later, returns CryptoError without   *)
(* advancing the nonce or invoking a handler, as long as no key            *)
(* establishment for that connection comes in between: of any number of    *)
(* concurrent dispatches of one ciphertext at most one succeeds.           *)
C17_OneOfConcurrentSucceeds ==
    [][\A t \in Threads :
          LET c == frame[t].conn_id
              p == frame[t].payload
          IN  /\ (Leaves(t, "hi_section") /\ <<c, p>> \in seen)
                  => /\ pc'[t] = "idle"
                     /\ last' = Returned(req[t], "CryptoError")
                     /\ CONNECTIONS' = CONNECTIONS
                     /\ handled' = handled
              /\ (Leaves(t, "hi_section") /\ pc'[t] = "hi_call")
                  => /\ <<c, p>> \notin seen
                     /\ <<c, p>> \in seen'
                     /\ CONNECTIONS'[c].nonce = (CONNECTIONS[c].nonce + 1) % 65536
              /\ handled' # handled => pc[t] = "hi_call" \/ pc'[t] = pc[t]]_vars

\* both callers carried the same ciphertext for connection 7 at the same time;
\* the first was accepted and is in its handler, the second has been refused
C17_Witness ==
    /\ last = Returned(FirstInput, "CryptoError")
    /\ \E t \in Threads :
          /\ pc[t] = "handler"
          /\ req[t] = FirstInput
    /\ ncalls = 3
    /\ CONNECTIONS[7].nonce = 1
    /\ handled = <<[index |-> 2, data |-> "open"]>>

\* the frames written to the Event Manager for connection c
FramesFor(c) == {i \in DOMAIN em : em[i].bytes = <<c \div 256, c % 256>>}

(* C18: outbound dispatch has advanced a connection's nonce by the time    *)
(* its send is spawned, and no step of a send, whether it drops the        *)
(* message (too long, connect failure, write failure) or writes it,        *)
(* changes the table: the nonce is never rolled back, so it can exceed the *)
(* number of frames written to the Event Manager for the connection.       *)
C18_NonceAdvancesRegardless ==
    /\ [][IsTaskStep => CONNECTIONS' = CONNECTIONS]_vars
    /\ [][\A t \in Threads :
             Leaves(t, "ho_loop") =>
                 \A i \in (Len(tasks) + 1) .. Len(tasks') :
                     /\ tasks'[i].st = "spawned"
                     /\ tasks'[i].data.ad =
                            <<CONNECTIONS[tasks'[i].conn_id].nonce \div 256,
                              CONNECTIONS[tasks'[i].conn_id].nonce % 256>>
                     /\ CONNECTIONS'[tasks'[i].conn_id].nonce =
                            (CONNECTIONS[tasks'[i].conn_id].nonce + 1) % 65536]_vars

C18_Witness ==
    /\ Len(tasks) = 2
    /\ \A i \in 1 .. 2 : tasks[i].conn_id = 7 /\ tasks[i].st = "dropped"
    /\ tasks[1].data.pt = "big" /\ tasks[2].data.pt = "out"
    /\ CONNECTIONS[7].nonce = 2
    /\ FramesFor(7) = {}

(* C19: nothing orders the send tasks: a send that has connected can write *)
(* whatever the state of the sends spawned before it, so the frame made    *)
(* under nonce n+1 of a connection can be written to the Event Manager     *)
(* before the frame made under nonce n.                                    *)
C19_SendsUnordered ==
    /\ [](\A i \in DOMAIN tasks :
             /\ tasks[i].st = "connected" => ENABLED TaskWrite(i)
             /\ tasks[i].st = "spawned"
                   => ENABLED (TaskConnect(i) \/ TaskTooBig(i)))
    /\ [][\A i \in DOMAIN tasks :
             (tasks[i].st = "connected" /\ tasks'[i].st = "written")
                 => /\ em' = Append(em, FrameOf(i))
                    /\ \A j \in DOMAIN tasks \ {i} : tasks'[j] = tasks[j]]_vars

C19_Witness ==
    /\ Len(em) = 2
    /\ em[1].bytes = <<0, 7>> /\ em[2].bytes = <<0, 7>>
    /\ em[1].cipher.key = "k1" /\ em[2].cipher.key = "k1"
    /\ em[1].cipher.ad = <<0, 1>>
    /\ em[2].cipher.ad = <<0, 0>>
    /\ tasks[1].data.ad = <<0, 0>> /\ tasks[2].data.ad = <<0, 1>>

\* the nonce under which the payload of thread t's inbound dispatch was made
PayloadNonce(t) == BE(frame[t].payload.ad, 1)

(* C20: an inbound dispatch that has decrypted its message has released    *)
(* the lock before it invokes the handler, so another dispatch on the same *)
(* connection can consume the next nonce meanwhile, and of two decrypted   *)
(* dispatches either may invoke its handler first: the handler of the      *)
(* message decrypted at nonce n+1 can run before that of nonce n.          *)
C20_HandlersUnordered ==
    /\ [](\A t \in Threads : pc[t] = "hi_call" => lock # t)
    /\ [](\A t \in Threads :
             (pc[t] = "hi_call" /\ frame[t].index \in INPUTS)
                 => ENABLED InputHandler(t))
    /\ [](\A t, u \in Threads :
             (pc[t] = "hi_call" /\ pc[u] = "hi_wait" /\ lock = Free)
                 => ENABLED InputLock(u))

C20_Witness ==
    \E t, u \in Threads :
        /\ pc[t] = "hi_call" /\ pc[u] = "handler"
        /\ frame[t].conn_id = 7 /\ frame[u].conn_id = 7
        /\ PayloadNonce(t) = 0 /\ PayloadNonce(u) = 1
        /\ frame[t].index = 2 /\ frame[u].index = 2
        /\ CONNECTIONS[7].nonce = 2
        /\ handled = <<[index |-> 2, data |-> "open"]>>

====
